---- MODULE Spec2Model ----
(***************************************************************************)
(* PIYS backend (src/app_backend_server.py, src/app_backend_models.py).    *)
(*                                                                         *)
(* The server is stateless; all state lives in four MongoDB collections    *)
(* (users, vehicles, parking_spaces, qrcodes).  Every handler is one       *)
(* action, except register, whose existence lookup (find_one) and insert   *)
(* (insert_one) are two store operations separated by an await and are     *)
(* therefore two steps of one request.  The other handlers run one store   *)
(* write at most; their reads are of collections that only grow, so each   *)
(* is one atomic step.                                                     *)
(*                                                                         *)
(* Values are typed as BSON types them: an ObjectId never equals a string. *)
(* Python strings that are compared with ids or concatenated into the QR   *)
(* payload are sequences of one-character strings; all other strings       *)
(* (email, password, names) are atoms.                                     *)
(***************************************************************************)
EXTENDS Integers, Sequences, FiniteSets, Bags, TLC

VARIABLES users, vehicles, parking_spaces, qrcodes, nextOid, pending, held,
          now, resp

vars == <<users, vehicles, parking_spaces, qrcodes, nextOid, pending, held,
          now, resp>>

stores == <<users, vehicles, parking_spaces, qrcodes>>

(***************************************************************************)
(* Bounds of the model.                                                    *)
(***************************************************************************)
\* user documents written by register, those of requests in flight included
MaxRegistered == 2
\* tokens the clients hold at a time
MaxTokens == 1
\* the clock stops here (minutes)
MaxNow == 45
\* documents per collection
MaxVehicles == 2
MaxSpaces == 1
MaxQrCodes == 2

\* the clock advances in steps of this many minutes
TickMinutes == 15

Emails == {"a@x.com", "b@x.com"}
Passwords == {"pw", "wrong"}
Names == {"A"}
Phones == {"555-1"}
Salts == {"s1"}

(***************************************************************************)
(* Program constants.                                                      *)
(***************************************************************************)
ACCESS_TOKEN_EXPIRE_MINUTES == 30
DefaultExpireMinutes == 15
CodeLength == 8
ListCap == 100
SECRET_KEY == "your-secret-key-here"

(***************************************************************************)
(* BSON / Python values.                                                   *)
(***************************************************************************)
None == [t |-> "null", v |-> <<>>]
ObjectId(n) == [t |-> "oid", v |-> <<n>>]
StrV(s) == [t |-> "str", v |-> s]

\* equality of two stored/queried values: the types must agree first
BsonEq(a, b) == a.t = b.t /\ a.v = b.v

HexDigits == <<"1", "2", "3", "4", "5", "6", "7", "8", "9", "a", "b", "c", "d", "e", "f">>

\* str(result.inserted_id): the hexadecimal rendering of an ObjectId
str_oid(o) == StrV(<<"0", HexDigits[o.v[1]]>>)

\* pydantic: a field annotated `str` rejects None (ValidationError)
IsStr(x) == x.t = "str"

\* A filter is the set of the indices of the documents it matches; a
\* collection is in natural (insertion) order.
First(hits) == CHOOSE k \in hits : \A m \in hits : k <= m

RECURSIVE InOrder(_)
InOrder(hits) ==
    IF hits = {} THEN <<>> ELSE <<First(hits)>> \o InOrder(hits \ {First(hits)})

\* collection.find_one(filter): the first match, or None
find_one(coll, hits) == IF hits = {} THEN None ELSE coll[First(hits)]

\* collection.find(filter).to_list(n): the first n matches
find_to_list(coll, hits, n) ==
    LET m == InOrder(hits)
    IN [k \in 1..(IF Len(m) < n THEN Len(m) ELSE n) |-> coll[m[k]]]

\* collection.delete_one(filter): the collection without its first match
delete_one(coll, hits) ==
    IF hits = {} THEN coll
    ELSE [k \in 1..(Len(coll) - 1) |->
             IF k < First(hits) THEN coll[k] ELSE coll[k + 1]]

\* {"email": email} on users
ByEmail(email) == {k \in DOMAIN users : users[k].email = email}

\* {"user_id": user_id}
ByOwner(coll, user_id) == {k \in DOMAIN coll : BsonEq(coll[k].user_id, user_id)}

(***************************************************************************)
(* Passwords: bcrypt.hashpw with a fresh salt, bcrypt.checkpw.             *)
(***************************************************************************)
bcrypt_hashpw(password, salt) == [salt |-> salt, digest |-> <<salt, password>>]

hash_password(password, salt) == bcrypt_hashpw(password, salt)

verify_password(plain_password, hashed_password) ==
    bcrypt_hashpw(plain_password, hashed_password.salt) = hashed_password

(***************************************************************************)
(* Tokens: jwt.encode / jwt.decode with HS256 over SECRET_KEY.             *)
(***************************************************************************)
NoDelta == -1
\* payload.get("sub") of a payload without the key
NoSub == ""

jwt_sign(payload, key) == <<key, payload.sub, payload.exp>>

jwt_encode(payload, key) == [payload |-> payload, sig |-> jwt_sign(payload, key)]

create_access_token(data, expires_delta, utcnow) ==
    LET expire == IF expires_delta # NoDelta /\ expires_delta # 0
                  THEN utcnow + expires_delta
                  ELSE utcnow + DefaultExpireMinutes
    IN jwt_encode([sub |-> data.sub, exp |-> expire], SECRET_KEY)

\* A token signed with another key, as a client may present.
ForgedToken == jwt_encode([sub |-> "a@x.com", exp |-> 1000], "other-key")

\* jwt.decode: the signature is verified, then the exp claim.  PyJWT 1.x
\* raises ExpiredSignatureError when exp < now, PyJWT 2.x when exp <= now;
\* the installed version is not pinned, so atExpiry is either.
jwt_decode_ok(tok, key, utcnow, atExpiry) ==
    /\ tok.sig = jwt_sign(tok.payload, key)
    /\ IF atExpiry THEN tok.payload.exp > utcnow ELSE tok.payload.exp >= utcnow

\* the outcomes of the comparison at the instant of expiry; elsewhere the
\* versions agree and one outcome is explored
AtExpiry(cred) == IF cred.tok.payload.exp = now THEN BOOLEAN ELSE {TRUE}

\* User(**user): the fields of the model are read from the keys of the same
\* name; the key _id is no field of User and is dropped.
UserOf(doc) ==
    [id |-> doc.id, email |-> doc.email, name |-> doc.name, phone |-> doc.phone,
     hashed_password |-> doc.hashed_password, created_at |-> doc.created_at]

NoUser == [id |-> None, email |-> "", name |-> "", phone |-> "",
           hashed_password |-> bcrypt_hashpw("", ""), created_at |-> 0]

Unauthorized(detail) == [status |-> 401, detail |-> detail, user |-> NoUser]

get_current_user(tok, utcnow, atExpiry) ==
    IF ~jwt_decode_ok(tok, SECRET_KEY, utcnow, atExpiry)
    THEN Unauthorized("Invalid authentication credentials")
    ELSE IF tok.payload.sub = NoSub
    THEN Unauthorized("Invalid authentication credentials")
    ELSE LET user == find_one(users, ByEmail(tok.payload.sub))
         IN IF user = None
            THEN Unauthorized("User not found")
            ELSE [status |-> 200, detail |-> "", user |-> UserOf(user)]

(***************************************************************************)
(* Responses.  caller is the _id number of the user document the presented *)
(* token was issued for (0: no token, or a forged one); it is bookkeeping  *)
(* of the model, as is the variable held (the tokens handed to clients).   *)
(***************************************************************************)
Response(op, status, detail, caller, arg, body) ==
    [op |-> op, status |-> status, detail |-> detail, caller |-> caller,
     arg |-> arg, body |-> body]

NoBody == <<>>

\* the credentials a client may present: a token it holds, or a forged one
Credentials == held \cup {[tok |-> ForgedToken, uid |-> 0]}

\* The client is handed a token: it holds at most MaxTokens tokens and drops
\* the ones it holds when there is no room for one more.
Keep(tok, uid) ==
    IF [tok |-> tok, uid |-> uid] \in held \/ Cardinality(held) < MaxTokens
    THEN held \cup {[tok |-> tok, uid |-> uid]}
    ELSE {[tok |-> tok, uid |-> uid]}

\* the user documents register wrote
Registered == {i \in DOMAIN users : users[i].id = None}

(***************************************************************************)
(* POST /auth/register                                                     *)
(***************************************************************************)
\* lines 110-112: the existence lookup.  A request that found no user is in
\* flight (in pending) until its insert.
RegisterFind(email, name, phone, password) ==
    /\ Cardinality(Registered) + BagCardinality(pending) < MaxRegistered
    /\ LET existing_user == find_one(users, ByEmail(email))
       IN IF existing_user # None
          THEN /\ resp' = Response("register", 400, "Email already registered", 0,
                                    email, NoBody)
               /\ UNCHANGED pending
          ELSE /\ pending' = pending (+) SetToBag({[email |-> email, name |-> name,
                                  phone |-> phone, password |-> password]})
               /\ UNCHANGED resp
    /\ UNCHANGED <<stores, nextOid, held, now>>

\* lines 115-142: hash, insert, token.  user.dict() is taken before user.id is
\* assigned, so the stored document holds id = None beside its _id.
RegisterInsert(r, salt) ==
    /\ BagIn(r, pending)
    /\ nextOid <= Len(HexDigits)
    /\ LET user == [_id |-> ObjectId(nextOid), id |-> None, email |-> r.email,
                    name |-> r.name, phone |-> r.phone,
                    hashed_password |-> hash_password(r.password, salt),
                    created_at |-> now]
           access_token == create_access_token([sub |-> user.email],
                                               ACCESS_TOKEN_EXPIRE_MINUTES, now)
       IN /\ users' = Append(users, user)
          /\ nextOid' = nextOid + 1
          /\ held' = Keep(access_token, nextOid)
          /\ resp' = Response("register", 200, "", 0, r.email,
                              [id |-> str_oid(user._id), email |-> user.email,
                               access_token |-> access_token])
    /\ pending' = pending (-) SetToBag({r})
    /\ UNCHANGED <<vehicles, parking_spaces, qrcodes, now>>

(***************************************************************************)
(* POST /auth/login                                                        *)
(***************************************************************************)
LoginFailure == [status |-> 401, detail |-> "Incorrect email or password",
                 body |-> NoBody]

\* login as it would be with a lookup failure of its own (404, "User not found")
login_UserNotFound(email, password, utcnow) ==
    LET user == find_one(users, ByEmail(email))
    IN IF user = None
       THEN [status |-> 404, detail |-> "User not found", body |-> NoBody]
       ELSE IF ~verify_password(password, user.hashed_password) THEN LoginFailure
       ELSE [status |-> 200, detail |-> "",
             body |-> [id |-> str_oid(user._id), email |-> user.email,
                       access_token |-> create_access_token([sub |-> user.email],
                                            ACCESS_TOKEN_EXPIRE_MINUTES, utcnow)]]

\* the response of login for one request against the users collection
login(email, password, utcnow) ==
    LET user == find_one(users, ByEmail(email))
    IN IF user = None THEN LoginFailure
       ELSE IF ~verify_password(password, user.hashed_password) THEN LoginFailure
       ELSE [status |-> 200, detail |-> "",
             body |-> [id |-> str_oid(user._id), email |-> user.email,
                       access_token |-> create_access_token([sub |-> user.email],
                                            ACCESS_TOKEN_EXPIRE_MINUTES, utcnow)]]

Login(email, password) ==
    LET r == login(email, password, now)
        user == find_one(users, ByEmail(email))
    IN /\ resp' = Response("login", r.status, r.detail, 0, email, r.body)
       /\ held' = IF r.status = 200
                  THEN Keep(r.body.access_token, user._id.v[1])
                  ELSE held
       /\ UNCHANGED <<stores, nextOid, pending, now>>

(***************************************************************************)
(* GET /auth/me                                                            *)
(***************************************************************************)
\* UserResponse.id is a required str: built from a user whose id is None it
\* raises ValidationError, which the server answers with 500.
GetMe(cred, atExpiry) ==
    LET cu == get_current_user(cred.tok, now, atExpiry)
    IN /\ resp' = IF cu.status # 200
                  THEN Response("get_me", cu.status, cu.detail, cred.uid, None, NoBody)
                  ELSE IF ~IsStr(cu.user.id)
                  THEN Response("get_me", 500, "Internal Server Error", cred.uid,
                                None, NoBody)
                  ELSE Response("get_me", 200, "", cred.uid, None,
                                [id |-> cu.user.id, email |-> cu.user.email])
       /\ UNCHANGED <<stores, nextOid, pending, held, now>>

(***************************************************************************)
(* Record store: vehicles and parking spaces.                              *)
(***************************************************************************)
InternalError == "Internal Server Error"

\* Model(id=str(d["_id"]), **{k: v for k, v in d.items() if k != "_id"}):
\* a stored document that holds the key "id" passes id twice, which raises
\* TypeError (answered with 500).
PassesIdTwice(d) == "id" \in DOMAIN d

\* the response of a listing built from the documents found
ListResponse(op, caller, found) ==
    IF \E k \in DOMAIN found : PassesIdTwice(found[k])
    THEN Response(op, 500, InternalError, caller, None, NoBody)
    ELSE Response(op, 200, "", caller, None,
                  [k \in DOMAIN found |-> str_oid(found[k]._id)])

\* the ids a client may put in a path or a body: the id returned for any
\* stored document (str(result.inserted_id)), a string that is no ObjectId,
\* and one holding the payload's separator
IdsOf(coll) == {str_oid(coll[k]._id) : k \in DOMAIN coll}
VehicleIdInputs == IdsOf(vehicles) \cup {StrV(<<"z">>)}
SpaceIdInputs == IdsOf(parking_spaces) \cup {StrV(<<"a", ":", "b">>)}

\* POST /vehicles
AddVehicle(cred, atExpiry, license_plate) ==
    LET cu == get_current_user(cred.tok, now, atExpiry)
        vehicle == [_id |-> ObjectId(nextOid), id |-> None, user_id |-> cu.user.id,
                    license_plate |-> license_plate, make |-> "make",
                    model |-> "model", color |-> "red", created_at |-> now]
    IN /\ Len(vehicles) < MaxVehicles
       /\ nextOid <= Len(HexDigits)
       /\ IF cu.status # 200
          THEN /\ resp' = Response("add_vehicle", cu.status, cu.detail, cred.uid,
                                   None, NoBody)
               /\ UNCHANGED <<vehicles, nextOid>>
          ELSE IF ~IsStr(vehicle.user_id)
          THEN /\ resp' = Response("add_vehicle", 500, InternalError, cred.uid,
                                   None, NoBody)
               /\ UNCHANGED <<vehicles, nextOid>>
          ELSE /\ vehicles' = Append(vehicles, vehicle)
               /\ nextOid' = nextOid + 1
               /\ resp' = Response("add_vehicle", 200, "", cred.uid, None,
                                   [id |-> str_oid(vehicle._id),
                                    user_id |-> vehicle.user_id])
       /\ UNCHANGED <<users, parking_spaces, qrcodes, pending, held, now>>

\* GET /vehicles
GetVehicles(cred, atExpiry) ==
    LET cu == get_current_user(cred.tok, now, atExpiry)
        found == find_to_list(vehicles, ByOwner(vehicles, cu.user.id), ListCap)
    IN /\ resp' = IF cu.status # 200
                  THEN Response("get_vehicles", cu.status, cu.detail, cred.uid,
                                None, NoBody)
                  ELSE ListResponse("get_vehicles", cred.uid, found)
       /\ UNCHANGED <<stores, nextOid, pending, held, now>>

\* the filter as it would be on the rendered id alone, whoever the owner is
VehicleDeleteFilter_IdOnly(d, vehicle_id, user_id) ==
    BsonEq(str_oid(d._id), vehicle_id)

\* the filter of delete_vehicle: {"_id": vehicle_id, "user_id": current_user.id}
VehicleDeleteFilter(d, vehicle_id, user_id) ==
    BsonEq(d._id, vehicle_id) /\ BsonEq(d.user_id, user_id)

\* DELETE /vehicles/{vehicle_id}
DeleteVehicle(cred, atExpiry, vehicle_id) ==
    LET cu == get_current_user(cred.tok, now, atExpiry)
        after == delete_one(vehicles,
                     {k \in DOMAIN vehicles :
                          VehicleDeleteFilter(vehicles[k], vehicle_id, cu.user.id)})
        deleted_count == Len(vehicles) - Len(after)
    IN /\ IF cu.status # 200
          THEN /\ resp' = Response("delete_vehicle", cu.status, cu.detail, cred.uid,
                                   vehicle_id, NoBody)
               /\ UNCHANGED vehicles
          ELSE /\ vehicles' = after
               /\ resp' = IF deleted_count = 0
                          THEN Response("delete_vehicle", 404, "Vehicle not found",
                                        cred.uid, vehicle_id, NoBody)
                          ELSE Response("delete_vehicle", 200,
                                        "Vehicle deleted successfully", cred.uid,
                                        vehicle_id, NoBody)
       /\ UNCHANGED <<users, parking_spaces, qrcodes, nextOid, pending, held, now>>

\* POST /spaces
AddParkingSpace(cred, atExpiry, title) ==
    LET cu == get_current_user(cred.tok, now, atExpiry)
        space == [_id |-> ObjectId(nextOid), id |-> None, user_id |-> cu.user.id,
                  title |-> title, address |-> "1 Main St", hourly_rate |-> 2,
                  daily_rate |-> None, available |-> TRUE, created_at |-> now]
    IN /\ Len(parking_spaces) < MaxSpaces
       /\ nextOid <= Len(HexDigits)
       /\ IF cu.status # 200
          THEN /\ resp' = Response("add_parking_space", cu.status, cu.detail,
                                   cred.uid, None, NoBody)
               /\ UNCHANGED <<parking_spaces, nextOid>>
          ELSE IF ~IsStr(space.user_id)
          THEN /\ resp' = Response("add_parking_space", 500, InternalError,
                                   cred.uid, None, NoBody)
               /\ UNCHANGED <<parking_spaces, nextOid>>
          ELSE /\ parking_spaces' = Append(parking_spaces, space)
               /\ nextOid' = nextOid + 1
               /\ resp' = Response("add_parking_space", 200, "", cred.uid, None,
                                   [id |-> str_oid(space._id),
                                    user_id |-> space.user_id])
       /\ UNCHANGED <<users, vehicles, qrcodes, pending, held, now>>

\* GET /spaces
GetParkingSpaces ==
    LET found == find_to_list(parking_spaces,
                     {k \in DOMAIN parking_spaces : parking_spaces[k].available},
                     ListCap)
    IN /\ resp' = ListResponse("get_parking_spaces", 0, found)
       /\ UNCHANGED <<stores, nextOid, pending, held, now>>

\* GET /my-spaces
GetMyParkingSpaces(cred, atExpiry) ==
    LET cu == get_current_user(cred.tok, now, atExpiry)
        found == find_to_list(parking_spaces,
                              ByOwner(parking_spaces, cu.user.id), ListCap)
    IN /\ resp' = IF cu.status # 200
                  THEN Response("get_my_parking_spaces", cu.status, cu.detail,
                                cred.uid, None, NoBody)
                  ELSE ListResponse("get_my_parking_spaces", cred.uid, found)
       /\ UNCHANGED <<stores, nextOid, pending, held, now>>

(***************************************************************************)
(* QR binding.                                                             *)
(***************************************************************************)
\* a subset of string.ascii_uppercase + string.digits
CodeChars == {"A", "7"}

\* the outcomes of the CodeLength draws of secrets.choice that are explored
Draws == {[i \in 1..CodeLength |-> c] : c \in CodeChars}

\* ''.join(secrets.choice(alphabet) for _ in range(length))
generate_unique_code(length, draw) == [i \in 1..length |-> draw[i]]

Sep == ":"
Prefix == <<"P", "I", "Y", "S">>

\* the payload as it would be with the owner before the space
QrPayload_OwnerFirst(unique_code, space_id, user_id) ==
    Prefix \o <<Sep>> \o unique_code \o <<Sep>> \o user_id \o <<Sep>> \o space_id

\* f"PIYS:{unique_code}:{qr_data.space_id}:{current_user.id}"
QrPayload(unique_code, space_id, user_id) ==
    Prefix \o <<Sep>> \o unique_code \o <<Sep>> \o space_id \o <<Sep>> \o user_id

\* generate_qr_code(data): the base64 image of the rendered payload
generate_qr_code(data) == [png |-> data]

\* POST /qrcodes
GenerateQrCode(cred, atExpiry, space_id, draw) ==
    LET cu == get_current_user(cred.tok, now, atExpiry)
        unique_code == generate_unique_code(CodeLength, draw)
    IN /\ Len(qrcodes) < MaxQrCodes
       /\ nextOid <= Len(HexDigits)
       /\ IF cu.status # 200
          THEN /\ resp' = Response("generate_qr_code", cu.status, cu.detail,
                                   cred.uid, space_id, NoBody)
               /\ UNCHANGED <<qrcodes, nextOid>>
          ELSE IF ~IsStr(cu.user.id)
          THEN /\ resp' = Response("generate_qr_code", 500, InternalError,
                                   cred.uid, space_id, NoBody)
               /\ UNCHANGED <<qrcodes, nextOid>>
          ELSE LET qr_code_data == QrPayload(unique_code, space_id.v, cu.user.id.v)
                   qr_code == [_id |-> ObjectId(nextOid), id |-> None,
                               user_id |-> cu.user.id, space_id |-> space_id,
                               unique_code |-> unique_code,
                               qr_data |-> qr_code_data,
                               qr_image |-> generate_qr_code(qr_code_data),
                               created_at |-> now]
               IN /\ qrcodes' = Append(qrcodes, qr_code)
                  /\ nextOid' = nextOid + 1
                  /\ resp' = Response("generate_qr_code", 200, "", cred.uid,
                                      space_id,
                                      [id |-> str_oid(qr_code._id),
                                       unique_code |-> unique_code])
       /\ UNCHANGED <<users, vehicles, parking_spaces, pending, held, now>>

\* the filter of scan_qr_code's second lookup: {"_id": qr_code["space_id"]}
SpaceScanFilter(d, space_id) == BsonEq(d._id, space_id)

\* POST /scan/{unique_code}
ScanQrCode(unique_code) ==
    LET qr_code == find_one(qrcodes,
                       {k \in DOMAIN qrcodes : qrcodes[k].unique_code = unique_code})
        space == find_one(parking_spaces,
                     {k \in DOMAIN parking_spaces :
                          SpaceScanFilter(parking_spaces[k], qr_code.space_id)})
    IN /\ resp' = IF qr_code = None
                  THEN Response("scan_qr_code", 404, "Invalid QR code", 0,
                                unique_code, NoBody)
                  ELSE IF space = None
                  THEN Response("scan_qr_code", 404, "Parking space not found", 0,
                                unique_code, NoBody)
                  ELSE IF PassesIdTwice(space) \/ PassesIdTwice(qr_code)
                  THEN Response("scan_qr_code", 500, InternalError, 0,
                                unique_code, NoBody)
                  ELSE Response("scan_qr_code", 200, "", 0, unique_code,
                                [space |-> space, qr_code |-> qr_code])
       /\ UNCHANGED <<stores, nextOid, pending, held, now>>

(***************************************************************************)
(* The clock (datetime.utcnow), in minutes.                                *)
(***************************************************************************)
Tick ==
    /\ now + TickMinutes <= MaxNow
    /\ now' = now + TickMinutes
    /\ UNCHANGED <<stores, nextOid, pending, held, resp>>

Init ==
    /\ users = <<>>
    /\ vehicles = <<>>
    /\ parking_spaces = <<>>
    /\ qrcodes = <<>>
    /\ nextOid = 1
    /\ pending = EmptyBag
    /\ held = {}
    /\ now = 0
    /\ resp = Response("none", 0, "", 0, None, NoBody)

AuthRequests ==
    \/ \E email \in Emails, name \in Names, phone \in Phones,
          password \in Passwords : RegisterFind(email, name, phone, password)
    \/ \E r \in BagToSet(pending), salt \in Salts : RegisterInsert(r, salt)
    \/ \E email \in Emails, password \in Passwords : Login(email, password)
    \/ \E cred \in Credentials : \E atExpiry \in AtExpiry(cred) :
          GetMe(cred, atExpiry)

VehicleRequests ==
    \/ \E cred \in Credentials : \E atExpiry \in AtExpiry(cred), plate \in {"ABC"} :
          AddVehicle(cred, atExpiry, plate)
    \/ \E cred \in Credentials : \E atExpiry \in AtExpiry(cred) :
          GetVehicles(cred, atExpiry)
    \/ \E cred \in Credentials :
          \E atExpiry \in AtExpiry(cred), vehicle_id \in VehicleIdInputs :
              DeleteVehicle(cred, atExpiry, vehicle_id)

SpaceRequests ==
    \/ \E cred \in Credentials : \E atExpiry \in AtExpiry(cred), title \in {"Spot"} :
          AddParkingSpace(cred, atExpiry, title)
    \/ GetParkingSpaces
    \/ \E cred \in Credentials : \E atExpiry \in AtExpiry(cred) :
          GetMyParkingSpaces(cred, atExpiry)
    \/ \E cred \in Credentials :
          \E atExpiry \in AtExpiry(cred), space_id \in SpaceIdInputs, draw \in Draws :
              GenerateQrCode(cred, atExpiry, space_id, draw)
    \/ \E draw \in Draws : ScanQrCode(generate_unique_code(CodeLength, draw))

(***************************************************************************)
(* The server on an empty database.                                        *)
(***************************************************************************)
Next == AuthRequests \/ VehicleRequests \/ SpaceRequests \/ Tick

Spec == Init /\ [][Next]_vars

\* the authentication requests alone
NextAuth == AuthRequests \/ Tick

SpecAuth == Init /\ [][NextAuth]_vars

(***************************************************************************)
(* The server on a database that holds accounts with a populated id.       *)
(*                                                                         *)
(* register never writes such a document (it stores id = None), and with   *)
(* id = None every create request fails validation: on the database the    *)
(* server fills by itself, vehicles, parking_spaces and qrcodes stay       *)
(* empty.  What the handlers do with stored records is therefore explored  *)
(* from a users collection whose two documents carry id = str(_id), as a   *)
(* writer other than register would have provisioned them; every other     *)
(* document is written by the handlers.                                    *)
(***************************************************************************)
SeedUsers ==
    <<[_id |-> ObjectId(1), id |-> str_oid(ObjectId(1)), email |-> "a@x.com",
       name |-> "A", phone |-> "555-1",
       hashed_password |-> hash_password("pw", "s1"), created_at |-> 0],
      [_id |-> ObjectId(2), id |-> str_oid(ObjectId(2)), email |-> "b@x.com",
       name |-> "A", phone |-> "555-1",
       hashed_password |-> hash_password("pw", "s1"), created_at |-> 0]>>

InitSeeded ==
    /\ users = SeedUsers
    /\ vehicles = <<>>
    /\ parking_spaces = <<>>
    /\ qrcodes = <<>>
    /\ nextOid = Len(SeedUsers) + 1
    /\ pending = EmptyBag
    /\ held = {}
    /\ now = 0
    /\ resp = Response("none", 0, "", 0, None, NoBody)

LoginRequests == \E email \in Emails, password \in Passwords : Login(email, password)

NextVehicles == LoginRequests \/ VehicleRequests

SpecVehicles == InitSeeded /\ [][NextVehicles]_vars

NextQr == LoginRequests \/ SpaceRequests

SpecQr == InitSeeded /\ [][NextQr]_vars

(***************************************************************************)
(* Properties.                                                             *)
(***************************************************************************)
\* the user identifier register and login return for the user document uid
UserId(uid) == str_oid(ObjectId(uid))

\* the user document a token was issued for
IssuedFor(cred) == find_one(users,
             {k \in DOMAIN users : BsonEq(users[k]._id, ObjectId(cred.uid))})

\* C1: no two user documents hold the same email, whatever the interleaving
\* of the register requests' lookups and inserts.
C1_EmailsUnique ==
    \A i, j \in DOMAIN users : users[i].email = users[j].email => i = j

\* C2: a token issued for user U resolves to U (U's email, U's record) at
\* every time before its expiry, is rejected with 401 at every time after
\* it, and never resolves to another user.
C2_TokenResolvesToItsUser ==
    \A cred \in held : \A atExpiry \in BOOLEAN :
        LET cu == get_current_user(cred.tok, now, atExpiry)
        IN /\ now < cred.tok.payload.exp =>
                 /\ cu.status = 200
                 /\ cu.user.email = cred.tok.payload.sub
           /\ now > cred.tok.payload.exp => cu.status = 401
           /\ cu.status = 200 => cu.user = UserOf(IssuedFor(cred))

\* The part of C2 that is about time and the subject alone: it holds.
TokenAcceptedUntilExpiry ==
    \A cred \in held : \A atExpiry \in BOOLEAN :
        LET cu == get_current_user(cred.tok, now, atExpiry)
        IN /\ now < cred.tok.payload.exp =>
                 /\ cu.status = 200
                 /\ cu.user.email = cred.tok.payload.sub
                 /\ cu.user.email = IssuedFor(cred).email
           /\ now > cred.tok.payload.exp => cu.status = 401

NoSuchUser(email) == find_one(users, ByEmail(email)) = None

WrongPassword(email, password) ==
    /\ ~NoSuchUser(email)
    /\ ~verify_password(password,
                        find_one(users, ByEmail(email)).hashed_password)

C4_SameFailure ==
    \A e1 \in Emails, e2 \in Emails, p1 \in Passwords, p2 \in Passwords :
        (NoSuchUser(e1) /\ WrongPassword(e2, p2)) =>
            /\ login(e1, p1, now) = login(e2, p2, now)
            /\ login(e1, p1, now).status = 401
            /\ login(e1, p1, now).body = NoBody

C4_FailureChangesNothing ==
    (resp' # resp /\ resp'.op = "login" /\ resp'.status # 200) =>
        UNCHANGED <<stores, held, pending, nextOid>>

\* C4: a login that fails because the email is unknown and one that fails
\* because the password is wrong get the same response (401, the same
\* detail, no token), and a failed login changes no store.
C4_LoginFailuresIndistinguishable ==
    [](C4_SameFailure) /\ [][C4_FailureChangesNothing]_vars

\* a wrong password was just refused for a registered email while another
\* email is not registered
C4_Witness ==
    /\ resp.op = "login"
    /\ resp.status = 401
    /\ ~NoSuchUser(resp.arg)
    /\ \E e \in Emails : NoSuchUser(e)

\* whether the user uid owns a vehicle whose returned id is vehicle_id
OwnsVehicle(uid, vehicle_id) ==
    \E k \in DOMAIN vehicles :
        /\ str_oid(vehicles[k]._id) = vehicle_id
        /\ vehicles[k].user_id = UserId(uid)

C5_NonOwnerDelete ==
    (/\ resp' # resp
     /\ resp'.op = "delete_vehicle"
     /\ resp'.status # 401
     /\ ~OwnsVehicle(resp'.caller, resp'.arg)) =>
        (resp'.status = 404 /\ vehicles' = vehicles)

C8_CreateAttachesCaller ==
    LET coll == IF resp.op \in {"add_vehicle", "get_vehicles"}
                THEN vehicles ELSE parking_spaces
        owned == find_to_list(coll, ByOwner(coll, UserId(resp.caller)), ListCap)
    IN /\ (resp.op \in {"add_vehicle", "add_parking_space"} /\ resp.status # 401) =>
             /\ resp.status = 200
             /\ \E k \in DOMAIN coll :
                   /\ str_oid(coll[k]._id) = resp.body.id
                   /\ coll[k].user_id = UserId(resp.caller)
       /\ (resp.op \in {"get_vehicles", "get_my_parking_spaces"}
              /\ resp.status # 401) =>
             /\ resp.status = 200
             /\ resp.body = [k \in DOMAIN owned |-> str_oid(owned[k]._id)]

RECURSIVE SplitOn(_, _)
SplitOn(s, sep) ==
    IF \A i \in DOMAIN s : s[i] # sep THEN <<s>>
    ELSE LET i == CHOOSE k \in DOMAIN s :
                      s[k] = sep /\ \A m \in 1..(k - 1) : s[m] # sep
         IN <<SubSeq(s, 1, i - 1)>> \o SplitOn(SubSeq(s, i + 1, Len(s)), sep)

\* "PIYS:" + code + ":" + spaceId + ":" + ownerId, written out
Concatenated(code, spaceId, ownerId) ==
    <<"P", "I", "Y", "S", ":">> \o code \o <<":">> \o spaceId \o <<":">> \o ownerId

ParsesBack(q) ==
    SplitOn(q.qr_data, ":")
        = <<(<<"P", "I", "Y", "S">>), q.unique_code, q.space_id.v, q.user_id.v>>

HasSeparator(s) == \E i \in DOMAIN s : s[i] = ":"

====
